---- MODULE Spec2Model ----
(***************************************************************************)
(* Model of crates/zlog/src/zlog.rs: process-wide initialisation, the      *)
(* emit paths (log! macro family, Logger::log, Zlog::log), scoped logger   *)
(* derivation and the Timer helper.  The filter, sink and env_config       *)
(* modules are declared by zlog.rs (mod env_config; pub mod filter; pub    *)
(* mod sink;) but their code is not part of the sources at hand; they are  *)
(* modelled from the written specification and marked as such.             *)
(*                                                                         *)
(* Strings are sequences of bytes (one-character strings for ASCII bytes,  *)
(* "E2"/"9A" for the lead and continuation byte of a multi-byte char).     *)
(* The empty string is << >>.                                              *)
(***************************************************************************)
EXTENDS Naturals, Sequences, FiniteSets, TLC

VARIABLES
    debug_assertions,   \* cfg(debug_assertions) of the build
    env,                \* process environment: [ZED_LOG, RUST_LOG]
    logger_installed,   \* the log crate's installed backend
    log_max_level,      \* the log crate's max level filter
    env_filter,         \* filter installed by filter::init_env_filter
    scope_map,          \* the Filter Table
    level_enabled_max,  \* the global gate's maximum enabled level
    stderr,             \* lines written with eprintln!
    sink,               \* records handed to sink::submit
    trace,              \* events of the last handler that ran, in program order
    init_result,        \* what the last init / try_init returned
    logger,             \* a Logger value held by the caller
    child,              \* the Logger last returned by scoped!
    scoped_call,        \* the last scoped! invocation
    timer,              \* a Timer value held by the caller
    timer_trace,        \* events of the completion logic of that Timer
    call,               \* the emit call the last step made, if it made one
    path,               \* the module path last handed to crate-name extraction
    crate,              \* what the extraction returned for it, if it ran
    reader,             \* an emit call in flight on another thread
    writer              \* a refresh of the Filter Table in flight

vars == <<debug_assertions, env, logger_installed, log_max_level, env_filter,
          scope_map, level_enabled_max, stderr, sink, trace, init_result,
          logger, child, scoped_call, timer, timer_trace, call,
          path, crate, reader, writer>>

----------------------------------------------------------------------------
(* Bounds of the model *)

MaxSink == 1
MaxStderr == 1
MaxElapsed == 2
MaxPathChars == 5

(* Program constants *)

SCOPE_DEPTH_MAX == 4

----------------------------------------------------------------------------
(* Strings, levels *)

EmptyStr == << >>

\* log::Level, ordered by verbosity as in the log crate (Error least verbose).
Levels == {"Error", "Warn", "Info", "Debug", "Trace"}

\* log::LevelFilter adds Off below Error.
LevelFilters == {"Off"} \cup Levels

LevelRank(l) ==
    CASE l = "Off"   -> 0
      [] l = "Error" -> 1
      [] l = "Warn"  -> 2
      [] l = "Info"  -> 3
      [] l = "Debug" -> 4
      [] l = "Trace" -> 5

\* log::LevelFilter::max()
LevelFilterMax == "Trace"

\* Module paths of the call sites of the model.
ModulePaths ==
    { <<"z">>,
      <<"z", ":", ":", "f">>,
      <<"g", ":", ":", "t">> }

\* Segment names handed to scoped!.
Names == { EmptyStr, <<"x">>, <<"y">> }

\* Timer labels.
Labels == { <<"l">> }

ContinuationBytes == {"9A"}

\* The characters module paths are built from: an ASCII letter, a colon and
\* a multi-byte character (lead byte, continuation byte).
PathChars == { <<"a">>, <<":">>, <<"E2", "9A">> }

\* Every &str of at most n of those characters, as its bytes.
RECURSIVE PathsOfChars(_)
PathsOfChars(n) ==
    IF n = 0
    THEN { EmptyStr }
    ELSE LET shorter == PathsOfChars(n - 1)
         IN  shorter \cup { s \o c : s \in shorter, c \in PathChars }

PathInputs == PathsOfChars(MaxPathChars)

\* str::is_char_boundary on a byte index (0-based).
IsCharBoundary(s, index) ==
    \/ index = 0
    \/ index = Len(s)
    \/ index < Len(s) /\ s[index + 1] \notin ContinuationBytes

\* A scan that takes any ':' followed by another byte as the boundary.
RECURSIVE CrateNameScanLoneColon(_, _)
CrateNameScanLoneColon(bytes, i) ==
    IF i + 1 < Len(bytes)
    THEN IF bytes[i + 1] = ":"
         THEN i
         ELSE CrateNameScanLoneColon(bytes, i + 1)
    ELSE Len(bytes)

\* A scan without the break: the last "::" wins.
RECURSIVE CrateNameScanNoBreak(_, _)
CrateNameScanNoBreak(bytes, i) ==
    IF i + 1 < Len(bytes)
    THEN LET rest == CrateNameScanNoBreak(bytes, i + 1)
         IN  IF bytes[i + 1] = ":" /\ bytes[i + 2] = ":" /\ rest = Len(bytes)
             THEN i
             ELSE rest
    ELSE Len(bytes)

\* The while loop of extract_crate_name_from_module_path, from byte i on.
RECURSIVE CrateNameScan(_, _)
CrateNameScan(bytes, i) ==
    IF i + 1 < Len(bytes)
    THEN IF bytes[i + 1] = ":" /\ bytes[i + 2] = ":"
         THEN i
         ELSE CrateNameScan(bytes, i + 1)
    ELSE Len(bytes)

extract_crate_name_from_module_path(module_path) ==
    LET index == CrateNameScan(module_path, 0)
    IN  IF IsCharBoundary(module_path, index)
        THEN SubSeq(module_path, 1, index)
        ELSE module_path

\* private::scope_new: the given segments, padded with empty strings.
scope_new(scopes) ==
    [i \in 1..SCOPE_DEPTH_MAX |-> IF i <= Len(scopes) THEN scopes[i] ELSE EmptyStr]

crate_name(module_path) == extract_crate_name_from_module_path(module_path)

\* default_logger!() expanded at a call site whose module_path!() is given.
default_logger(module_path) == [scope |-> scope_new(<<crate_name(module_path)>>)]

\* Stands for "no Logger value" (never a real Scope: it has no segments).
NoLogger == [scope |-> << >>]

----------------------------------------------------------------------------
(* scoped! *)

\* The while loop of scoped!: index is the 0-based Rust index.
RECURSIVE ScopedScan(_, _)
ScopedScan(scope, index) ==
    IF index < Len(scope) /\ scope[index + 1] # EmptyStr
    THEN ScopedScan(scope, index + 1)
    ELSE index

\* A derivation that searches the free slot from the end of the Scope.
ScopedFillsLastSlot(parent, name, debug) ==
    LET scope == parent.scope
    IN  IF scope[Len(scope)] # EmptyStr
        THEN [outcome |-> IF debug THEN "unreachable_panic" ELSE "index_out_of_bounds_panic",
              parent |-> parent, child |-> NoLogger]
        ELSE [outcome |-> "ok", parent |-> parent,
              child |-> [scope |-> [scope EXCEPT ![Len(scope)] = name]]]

ScopedBadStart(parent, name, debug) ==
    LET scope == parent.scope
        index == ScopedScan(scope, 2)
    IN  IF index >= Len(scope)
        THEN [outcome |-> IF debug THEN "unreachable_panic" ELSE "index_out_of_bounds_panic",
              parent |-> parent, child |-> NoLogger]
        ELSE [outcome |-> "ok", parent |-> parent,
              child |-> [scope |-> [scope EXCEPT ![index + 1] = name]]]

\* scoped!(parent => name).  With index = scope.len() the debug build panics
\* in unreachable!; the release build goes on to scope[index] = name, an
\* out-of-bounds array store, which panics as well.
scoped(parent, name, debug) ==
    LET scope == parent.scope
        index == ScopedScan(scope, 1)
    IN  IF index >= Len(scope)
        THEN [outcome |-> IF debug THEN "unreachable_panic" ELSE "index_out_of_bounds_panic",
              parent |-> parent, child |-> NoLogger]
        ELSE [outcome |-> "ok", parent |-> parent,
              child |-> [scope |-> [scope EXCEPT ![index + 1] = name]]]

NoScopedCall == [called |-> FALSE, parent |-> NoLogger, name |-> EmptyStr,
                 outcome |-> "none", parent_after |-> NoLogger, child |-> NoLogger]

----------------------------------------------------------------------------
(* Option values: None is the empty tuple, Some(x) the one-element tuple. *)

None == << >>
Some(x) == <<x>>
IsSome(o) == Len(o) = 1
Unwrap(o) == o[1]
\* Option::or
OptionOr(a, b) == IF IsSome(a) THEN a ELSE b

----------------------------------------------------------------------------
(* The process state the handlers work on, as one record. *)

World ==
    [logger_installed  |-> logger_installed,
     log_max_level     |-> log_max_level,
     env_filter        |-> env_filter,
     scope_map         |-> scope_map,
     level_enabled_max |-> level_enabled_max,
     stderr            |-> stderr,
     sink              |-> sink,
     trace             |-> << >>]

SetWorld(w) ==
    /\ logger_installed' = w.logger_installed
    /\ log_max_level' = w.log_max_level
    /\ env_filter' = w.env_filter
    /\ scope_map' = w.scope_map
    /\ level_enabled_max' = w.level_enabled_max
    /\ stderr' = w.stderr
    /\ sink' = w.sink
    /\ trace' = w.trace

\* Events are [ev, ok, level]; events not about a level carry NoLevel.
NoLevel == "-"
EventL(w, ev, ok, level) ==
    [w EXCEPT !.trace = Append(@, [ev |-> ev, ok |-> ok, level |-> level])]
Event(w, ev, ok) == EventL(w, ev, ok, NoLevel)

----------------------------------------------------------------------------
(* filter module (modelled from the written specification, sections 4.2, 6) *)

\* The level used when no Filter Table entry matches.
DefaultLevel == "Info"

EmptyMap == [k \in {} |-> "Off"]

\* Stage 1, the global gate.
is_possibly_enabled_level(w, level) ==
    LevelRank(level) <= LevelRank(w.level_enabled_max)

\* The non-empty leading segments of a Scope.
RECURSIVE ScopeDepth(_, _)
ScopeDepth(scope, i) ==
    IF i < Len(scope) /\ scope[i + 1] # EmptyStr THEN ScopeDepth(scope, i + 1) ELSE i

\* The first n segments of a Scope joined with SCOPE_STRING_SEP_STR.
RECURSIVE ScopeKey(_, _)
ScopeKey(scope, n) ==
    IF n = 0 THEN EmptyStr
    ELSE IF n = 1 THEN scope[1]
    ELSE ScopeKey(scope, n - 1) \o <<".">> \o scope[n]

\* The longest scope prefix that has an entry, 0 if none has.
RECURSIVE LongestPrefix(_, _, _)
LongestPrefix(map, scope, n) ==
    IF n = 0 THEN 0
    ELSE IF ScopeKey(scope, n) \in DOMAIN map THEN n
    ELSE LongestPrefix(map, scope, n - 1)

\* Stage 2, the minimum level the Filter Table resolves for a call: an entry
\* keyed by the full module path wins over scope entries, the longest scope
\* prefix wins over shorter ones, the default level applies otherwise.
ResolveLevel(map, scope, module_path) ==
    IF IsSome(module_path) /\ Unwrap(module_path) \in DOMAIN map
    THEN map[Unwrap(module_path)]
    ELSE LET n == LongestPrefix(map, scope, ScopeDepth(scope, 0))
         IN  IF n = 0 THEN DefaultLevel ELSE map[ScopeKey(scope, n)]

ScopeMatch(map, scope, module_path, level) ==
    LevelRank(level) <= LevelRank(ResolveLevel(map, scope, module_path))

\* The two-stage enablement check; stage 2 is reached only if stage 1 passes.
is_scope_enabled(w, scope, module_path, level) ==
    IF ~is_possibly_enabled_level(w, level)
    THEN FALSE
    ELSE ScopeMatch(w.scope_map, scope, module_path, level)

\* filter::init_env_filter
init_env_filter(w, filter) == [w EXCEPT !.env_filter = Some(filter)]

\* The table a settings map and the environment filter give together.
MergedMap(envf, settings) ==
    LET e == IF IsSome(envf) THEN Unwrap(envf) ELSE EmptyMap
    IN  [k \in DOMAIN e \cup DOMAIN settings |->
            IF k \in DOMAIN e THEN e[k] ELSE settings[k]]

\* A refresh that updates the shared table in place: the new entries are
\* written first, the stale ones removed afterwards.
RefreshStoresInPlace(old, new) ==
    << [k \in DOMAIN old \cup DOMAIN new |-> IF k \in DOMAIN new THEN new[k] ELSE old[k]],
       new >>

\* The values a refresh stores, in order, into the table readers load:
\* the new table is built aside and swapped in with one store.
refresh_stores(old, new) == << new >>

\* filter::refresh_from_settings: wholesale replacement of the Filter Table.
refresh_from_settings(w, settings) ==
    LET stores == refresh_stores(w.scope_map, MergedMap(w.env_filter, settings))
    IN  [w EXCEPT !.scope_map = stores[Len(stores)]]

----------------------------------------------------------------------------
(* env_config module (modelled from the written specification, section 6) *)

\* A filter expression is a list of directives key=level.
RECURSIVE DirectivesToMap(_)
DirectivesToMap(ds) ==
    IF ds = << >> THEN EmptyMap
    ELSE LET m == DirectivesToMap(SubSeq(ds, 1, Len(ds) - 1))
             d == ds[Len(ds)]
         IN  [k \in DOMAIN m \cup {d.key} |-> IF k = d.key THEN d.level ELSE m[k]]

\* env_config::parse: Ok(filter) or Err.
env_config_parse(s) ==
    IF \A i \in 1..Len(s) : s[i].level \in LevelFilters
    THEN [ok |-> TRUE, filter |-> DirectivesToMap(s)]
    ELSE [ok |-> FALSE, filter |-> EmptyMap]

----------------------------------------------------------------------------
(* sink module (modelled from the written specification, section 6) *)

\* sink::submit
submit(w, record) == Event([w EXCEPT !.sink = Append(@, record)], "submit", TRUE)

----------------------------------------------------------------------------
(* Records and messages *)

\* fmt::Arguments of a call site, by what they carry.
Message(kind, name, elapsed, limit) ==
    [kind |-> kind, name |-> name, elapsed |-> elapsed, limit |-> limit]

UserMessage == Message("user", EmptyStr, 0, None)

\* sink::Record
SinkRecord(scope, level, message, module_path) ==
    [scope |-> scope, level |-> level, message |-> message, module_path |-> module_path]

\* log::Record as handed to a log::Log backend.  module_path_static() is
\* Some only when the path is a 'static str.
LogRecord(level, module_path, is_static, file, args) ==
    [level |-> level, module_path |-> module_path, is_static |-> is_static,
     file |-> file, args |-> args]

\* Stands for the literal "*unknown*" of Zlog::log.
UnknownModule == <<"*", "u", "*">>

module_path_static(record) ==
    IF record.is_static THEN record.module_path ELSE None

----------------------------------------------------------------------------
(* Emit paths *)

LogMacroAlwaysSubmits(w, lg, level, module_path, message) ==
    LET enabled == is_scope_enabled(w, lg.scope, Some(module_path), level)
        w1 == EventL(w, "is_scope_enabled", enabled, level)
    IN  submit(Event(w1, "format_args", TRUE),
               SinkRecord(lg.scope, level, message, Some(module_path)))

LogMacroEagerFormat(w, lg, level, module_path, message) ==
    LET enabled == is_scope_enabled(w, lg.scope, Some(module_path), level)
        w1 == EventL(Event(w, "format_args", TRUE), "is_scope_enabled", enabled, level)
    IN  IF enabled
        THEN submit(w1, SinkRecord(lg.scope, level, message, Some(module_path)))
        ELSE w1

LogMacroDefaultScope(w, lg, level, module_path, message) ==
    LET enabled == is_scope_enabled(w, lg.scope, Some(module_path), level)
        w1 == EventL(w, "is_scope_enabled", enabled, level)
    IN  IF enabled
        THEN submit(Event(w1, "format_args", TRUE),
                    SinkRecord(default_logger(module_path).scope, level, message,
                               Some(module_path)))
        ELSE w1

\* log!(logger, level, args): the check, then, only if enabled, the
\* format_args! and the submit.
log_macro(w, lg, level, module_path, message) ==
    LET enabled == is_scope_enabled(w, lg.scope, Some(module_path), level)
        w1 == EventL(w, "is_scope_enabled", enabled, level)
    IN  IF enabled
        THEN submit(Event(w1, "format_args", TRUE),
                    SinkRecord(lg.scope, level, message, Some(module_path)))
        ELSE w1

\* impl log::Log for Logger: log
Logger_log(w, self, record) ==
    IF ~is_possibly_enabled_level(w, record.level)
    THEN Event(w, "enabled", FALSE)
    ELSE LET w1 == Event(w, "enabled", TRUE)
             level == record.level
             ok == is_scope_enabled(w1, self.scope, record.module_path, level)
             w2 == EventL(w1, "is_scope_enabled", ok, level)
         IN  IF ~ok
             THEN w2
             ELSE submit(w2, SinkRecord(self.scope, level, record.args, record.module_path))

\* The (crate_name_scope, module_scope) pair Zlog::log derives from a record.
ZlogScopes(record) ==
    LET static == module_path_static(record)
    IN  IF IsSome(static)
        THEN [crate_name_scope |->
                  scope_new(<<extract_crate_name_from_module_path(Unwrap(static))>>),
              module_scope |-> scope_new(<<Unwrap(static)>>)]
        ELSE [crate_name_scope |-> scope_new(<< >>),
              module_scope |-> scope_new(<<UnknownModule>>)]

\* A backend that submits the Scope it checked.
ZlogLogSubmitsCheckedScope(w, record) ==
    IF ~is_possibly_enabled_level(w, record.level)
    THEN Event(w, "enabled", FALSE)
    ELSE LET w1 == Event(w, "enabled", TRUE)
             crate_name_scope == ZlogScopes(record).crate_name_scope
             level == record.level
             ok == is_scope_enabled(w1, crate_name_scope, record.module_path, level)
             w2 == EventL(w1, "is_scope_enabled", ok, level)
         IN  IF ~ok
             THEN w2
             ELSE submit(w2, SinkRecord(crate_name_scope, level, record.args,
                                        OptionOr(record.module_path, record.file)))

\* impl log::Log for Zlog: log
Zlog_log(w, record) ==
    IF ~is_possibly_enabled_level(w, record.level)
    THEN Event(w, "enabled", FALSE)
    ELSE LET w1 == Event(w, "enabled", TRUE)
             crate_name_scope == ZlogScopes(record).crate_name_scope
             module_scope == ZlogScopes(record).module_scope
             level == record.level
             ok == is_scope_enabled(w1, crate_name_scope, record.module_path, level)
             w2 == EventL(w1, "is_scope_enabled", ok, level)
         IN  IF ~ok
             THEN w2
             ELSE submit(w2, SinkRecord(module_scope, level, record.args,
                                        OptionOr(record.module_path, record.file)))

----------------------------------------------------------------------------
(* Process-wide initialisation *)

\* module_path!() inside zlog.rs
ZlogModulePath == <<"z">>

\* The byte of a value that is not valid Unicode.
InvalidByte == "FF"

IsUnicode(value) ==
    \A i \in 1..Len(value) :
        \A j \in 1..Len(value[i].key) : value[i].key[j] # InvalidByte

\* std::env::var(key).ok(): None when the variable is not present and when
\* its value is not valid Unicode.
env_var(e, key) ==
    IF IsSome(e[key]) /\ IsUnicode(Unwrap(e[key])) THEN e[key] ELSE None

\* RUST_LOG is asked first.
GetEnvConfigRustFirst(e) == OptionOr(env_var(e, "RUST_LOG"), env_var(e, "ZED_LOG"))

\* std::env::var("ZED_LOG").or_else(|_| std::env::var("RUST_LOG")).ok()
get_env_config(e) == OptionOr(env_var(e, "ZED_LOG"), env_var(e, "RUST_LOG"))

eprintln(w, line) == Event([w EXCEPT !.stderr = Append(@, line)], "eprintln", TRUE)

ProcessEnvInstallsOnError(w, e) ==
    LET env_config == get_env_config(e)
    IN  IF ~IsSome(env_config)
        THEN w
        ELSE LET parsed == env_config_parse(Unwrap(env_config))
             IN  Event(init_env_filter(w, parsed.filter), "init_env_filter", TRUE)

process_env(w, e) ==
    LET env_config == get_env_config(e)
    IN  IF ~IsSome(env_config)
        THEN w
        ELSE LET parsed == env_config_parse(Unwrap(env_config))
             IN  IF parsed.ok
                 THEN Event(init_env_filter(w, parsed.filter), "init_env_filter", TRUE)
                 ELSE eprintln(w, "Failed to parse log filter")

\* log::set_logger: fails once any backend is installed.
set_logger(w) ==
    IF w.logger_installed # "none"
    THEN [ok |-> FALSE, w |-> Event(w, "set_logger", FALSE)]
    ELSE [ok |-> TRUE, w |-> Event([w EXCEPT !.logger_installed = "ZLOG"], "set_logger", TRUE)]

\* log::set_max_level
set_max_level(w, filter) == Event([w EXCEPT !.log_max_level = filter], "set_max_level", TRUE)

\* try_init up to its call of refresh_from_settings.
try_init_before_refresh(w, e) ==
    LET r == set_logger(w)
    IN  IF ~r.ok
        THEN [ok |-> FALSE, w |-> r.w]
        ELSE LET w2 == set_max_level(r.w, LevelFilterMax)
                 w3 == Event(process_env(w2, e), "process_env", TRUE)
             IN  [ok |-> TRUE, w |-> w3]

TryInitIgnoresInstallError(w, e) ==
    LET r == set_logger(w)
        w2 == set_max_level(r.w, LevelFilterMax)
        w3 == Event(process_env(w2, e), "process_env", TRUE)
        w4 == Event(refresh_from_settings(w3, EmptyMap), "refresh_from_settings", TRUE)
    IN  [ok |-> r.ok, w |-> w4]

TryInitRefreshesFirst(w, e) ==
    LET r == set_logger(w)
    IN  IF ~r.ok
        THEN [ok |-> FALSE, w |-> r.w]
        ELSE LET w2 == set_max_level(r.w, LevelFilterMax)
                 w3 == Event(refresh_from_settings(w2, EmptyMap), "refresh_from_settings", TRUE)
                 w4 == Event(process_env(w3, e), "process_env", TRUE)
             IN  [ok |-> TRUE, w |-> w4]

try_init(w, e) ==
    LET r == try_init_before_refresh(w, e)
    IN  IF ~r.ok
        THEN r
        ELSE LET w4 == Event(refresh_from_settings(r.w, EmptyMap), "refresh_from_settings", TRUE)
             IN  [ok |-> TRUE, w |-> w4]

\* A macro of the log crate (log::error! and the like): the crate's max
\* level is compared first, then the installed backend gets the record.
log_crate_log(w, record) ==
    IF LevelRank(record.level) > LevelRank(w.log_max_level)
    THEN Event(w, "log_crate_max_level", FALSE)
    ELSE IF w.logger_installed = "ZLOG"
         THEN Zlog_log(Event(w, "log_crate_max_level", TRUE), record)
         ELSE Event(w, "foreign_backend_log", w.logger_installed # "none")

\* The record of log::error!("{err}") in init.
InitErrorRecord ==
    LogRecord("Error", Some(ZlogModulePath), TRUE, Some(<<"z", ".", "r", "s">>),
              Message("set_logger_error", EmptyStr, 0, None))

init(w, e) ==
    LET r == try_init(w, e)
    IN  IF ~r.ok
        THEN [ok |-> FALSE,
              w |-> eprintln(log_crate_log(r.w, InitErrorRecord), "SetLoggerError")]
        ELSE r

----------------------------------------------------------------------------
(* Timer *)

NoTimer == [state |-> "none", logger |-> NoLogger, name |-> EmptyStr,
            warn_if_longer_than |-> None, done |-> FALSE]

\* Timer::new
Timer_new(lg, name) ==
    [state |-> "live", logger |-> lg, name |-> name,
     warn_if_longer_than |-> None, done |-> FALSE]

\* Timer::warn_if_gt
warn_if_gt(self, warn_limit) == [self EXCEPT !.warn_if_longer_than = Some(warn_limit)]

\* A completion that marks the Timer done only if its record was submitted.
FinishDoneIfSubmitted(w0, self, elapsed) ==
    IF self.done
    THEN [w |-> Event(w0, "finish", FALSE), timer |-> self]
    ELSE LET w == Event(w0, "finish", TRUE)
             over == /\ IsSome(self.warn_if_longer_than)
                     /\ elapsed > Unwrap(self.warn_if_longer_than)
             w1 == IF over
                   THEN log_macro(w, self.logger, "Warn", ZlogModulePath,
                                  Message("timer_took", self.name, elapsed,
                                          self.warn_if_longer_than))
                   ELSE log_macro(w, self.logger, "Trace", ZlogModulePath,
                                  Message("timer_finished", self.name, elapsed, None))
         IN  [w |-> w1, timer |-> [self EXCEPT !.done = (w1.sink # w.sink)]]

\* A completion that falls back to the Trace record when Warn is not
\* enabled for the Timer's Logger.
FinishFallsBackToTrace(w0, self, elapsed) ==
    IF self.done
    THEN [w |-> Event(w0, "finish", FALSE), timer |-> self]
    ELSE LET w == Event(w0, "finish", TRUE)
             over == /\ IsSome(self.warn_if_longer_than)
                     /\ elapsed > Unwrap(self.warn_if_longer_than)
         IN  IF over /\ is_scope_enabled(w, self.logger.scope, Some(ZlogModulePath), "Warn")
             THEN [w |-> log_macro(w, self.logger, "Warn", ZlogModulePath,
                                   Message("timer_took", self.name, elapsed,
                                           self.warn_if_longer_than)),
                   timer |-> [self EXCEPT !.done = TRUE]]
             ELSE [w |-> log_macro(w, self.logger, "Trace", ZlogModulePath,
                                   Message("timer_finished", self.name, elapsed, None)),
                   timer |-> [self EXCEPT !.done = TRUE]]

FinishIgnoresDone(w0, self, elapsed) ==
    LET w == Event(w0, "finish", TRUE)
    IN  IF IsSome(self.warn_if_longer_than) /\ elapsed > Unwrap(self.warn_if_longer_than)
        THEN [w |-> log_macro(w, self.logger, "Warn", ZlogModulePath,
                              Message("timer_took", self.name, elapsed,
                                      self.warn_if_longer_than)),
              timer |-> [self EXCEPT !.done = TRUE]]
        ELSE [w |-> log_macro(w, self.logger, "Trace", ZlogModulePath,
                              Message("timer_finished", self.name, elapsed, None)),
              timer |-> [self EXCEPT !.done = TRUE]]

FinishWarnsAtLimit(w0, self, elapsed) ==
    IF self.done
    THEN [w |-> Event(w0, "finish", FALSE), timer |-> self]
    ELSE LET w == Event(w0, "finish", TRUE)
         IN  IF IsSome(self.warn_if_longer_than)
                /\ elapsed >= Unwrap(self.warn_if_longer_than)
             THEN [w |-> log_macro(w, self.logger, "Warn", ZlogModulePath,
                                   Message("timer_took", self.name, elapsed,
                                           self.warn_if_longer_than)),
                   timer |-> [self EXCEPT !.done = TRUE]]
             ELSE [w |-> log_macro(w, self.logger, "Trace", ZlogModulePath,
                                   Message("timer_finished", self.name, elapsed, None)),
                   timer |-> [self EXCEPT !.done = TRUE]]

\* Timer::finish, with the elapsed time it measures.  The "finish" event
\* tells whether the call found the Timer still active.
finish(w0, self, elapsed) ==
    IF self.done
    THEN [w |-> Event(w0, "finish", FALSE), timer |-> self]
    ELSE LET w == Event(w0, "finish", TRUE)
         IN  IF IsSome(self.warn_if_longer_than)
                /\ elapsed > Unwrap(self.warn_if_longer_than)
             THEN [w |-> log_macro(w, self.logger, "Warn", ZlogModulePath,
                                   Message("timer_took", self.name, elapsed,
                                           self.warn_if_longer_than)),
                   timer |-> [self EXCEPT !.done = TRUE]]
             ELSE [w |-> log_macro(w, self.logger, "Trace", ZlogModulePath,
                                   Message("timer_finished", self.name, elapsed, None)),
                   timer |-> [self EXCEPT !.done = TRUE]]

\* impl Drop for Timer
Timer_drop(w, self, elapsed) ==
    LET r == finish(w, self, elapsed)
    IN  [w |-> r.w, timer |-> [r.timer EXCEPT !.state = "dropped"]]

\* Timer::end: finish, then the drop of the consumed self, which measures
\* a later elapsed time.
Timer_end(w, self, elapsed, later) ==
    LET r == finish(w, self, elapsed)
    IN  Timer_drop(r.w, r.timer, later)

----------------------------------------------------------------------------
(* Inputs of the model *)

NoEnv == [ZED_LOG |-> None, RUST_LOG |-> None]

\* Values of the two environment variables: a well-formed expression each,
\* a malformed one, and a value that is not valid Unicode.
ZedLogValues == { <<[key |-> <<"z">>, level |-> "Trace"]>>,
                  <<[key |-> <<"z">>, level |-> "bogus"]>>,
                  <<[key |-> <<InvalidByte>>, level |-> "Trace"]>> }
RustLogValues == { <<[key |-> <<"g">>, level |-> "Debug"]>>,
                   <<[key |-> <<"g">>, level |-> "bogus"]>>,
                   <<[key |-> <<InvalidByte>>, level |-> "Debug"]>> }

EnvConfigs ==
    { [ZED_LOG |-> z, RUST_LOG |-> r] :
        z \in {None} \cup { Some(v) : v \in ZedLogValues },
        r \in {None} \cup { Some(v) : v \in RustLogValues } }

\* Loggers the emit paths and timers are given.
EmitLoggers ==
    { default_logger(<<"z">>),
      scoped(default_logger(<<"z">>), <<"x">>, FALSE).child }

\* Module paths of the emitting call sites.
EmitModulePaths == { <<"z">>, <<"z", ":", ":", "f">> }

\* Values the global max level of the gate is set to.
GateLevels == {"Error", "Info", "Trace"}

\* Settings maps handed to refresh_from_settings.
SettingsMaps ==
    { EmptyMap,
      [k \in { <<"z">> } |-> "Trace"],
      [k \in { <<"z">>, <<"z", ".", "x">>, <<"z", ":", ":", "f">> } |->
          IF k = <<"z">> THEN "Error" ELSE IF k = <<"z", ".", "x">> THEN "Debug" ELSE "Trace"] }

\* Records arriving through the log crate: with a module path, 'static or
\* not, or with none and then with or without a file.
LogRecords ==
    { LogRecord(level, Some(m), st, None, UserMessage) :
        level \in Levels, m \in EmitModulePaths, st \in BOOLEAN }
    \cup
    { LogRecord(level, None, FALSE, file, UserMessage) :
        level \in Levels, file \in {None, Some(<<"f", ".", "r", "s">>)} }

----------------------------------------------------------------------------
(* Actions *)

\* What an emit call was given: the Scope the match is run against, the
\* level and the module path.
EmitCall(kind, scope, level, module_path) ==
    [kind |-> kind, scope |-> scope, level |-> level, module_path |-> module_path]

NoCall == EmitCall("none", << >>, NoLevel, None)

worldVars == <<logger_installed, log_max_level, env_filter, scope_map,
               level_enabled_max, stderr, sink, trace>>
scopeVars == <<logger, child, scoped_call>>
timerVars == <<timer, timer_trace>>
cfgVars == <<debug_assertions, env>>
crateVars == <<path, crate>>
refreshVars == <<reader, writer>>

\* default_logger!() at a call site
DefaultLogger(module_path) ==
    /\ logger' = default_logger(module_path)
    /\ call' = NoCall
    /\ UNCHANGED <<child, scoped_call, worldVars, timerVars, cfgVars, crateVars, refreshVars, init_result>>

\* scoped!(parent => name) with the caller's logger or the last child as
\* parent.  A panic returns no Logger.
Scoped(src, name) ==
    LET parent == IF src = "logger" THEN logger ELSE child
        r == scoped(parent, name, debug_assertions)
    IN  /\ parent # NoLogger
        /\ logger' = IF src = "logger" THEN r.parent ELSE logger
        /\ child' = r.child
        /\ scoped_call' = [called |-> TRUE, parent |-> parent, name |-> name,
                           outcome |-> r.outcome, parent_after |-> r.parent,
                           child |-> r.child]
        /\ call' = NoCall
        /\ UNCHANGED <<worldVars, timerVars, cfgVars, crateVars, refreshVars, init_result>>

\* log!, trace!, debug!, info!, warn!, error! with a resolved Logger
LogMacro(lg, level, module_path) ==
    /\ Len(sink) < MaxSink
    /\ SetWorld(log_macro(World, lg, level, module_path, UserMessage))
    /\ call' = EmitCall("log!", lg.scope, level, Some(module_path))
    /\ UNCHANGED <<scopeVars, timerVars, cfgVars, crateVars, refreshVars, init_result>>

\* Logger::log
LoggerLog(lg, record) ==
    /\ Len(sink) < MaxSink
    /\ SetWorld(Logger_log(World, lg, record))
    /\ call' = EmitCall("Logger::log", lg.scope, record.level, record.module_path)
    /\ UNCHANGED <<scopeVars, timerVars, cfgVars, crateVars, refreshVars, init_result>>

\* Zlog::log
ZlogLog(record) ==
    /\ Len(sink) < MaxSink
    /\ SetWorld(Zlog_log(World, record))
    /\ call' = EmitCall("Zlog::log", ZlogScopes(record).crate_name_scope, record.level,
                        record.module_path)
    /\ UNCHANGED <<scopeVars, timerVars, cfgVars, crateVars, refreshVars, init_result>>

\* A log crate macro somewhere in the process
LogCrateCall(record) ==
    /\ Len(sink) < MaxSink
    /\ SetWorld(log_crate_log(World, record))
    /\ call' = NoCall
    /\ UNCHANGED <<scopeVars, timerVars, cfgVars, crateVars, refreshVars, init_result>>

\* The global max level of the gate is set.
SetGlobalMaxLevel(l) ==
    /\ level_enabled_max # l
    /\ SetWorld([World EXCEPT !.level_enabled_max = l])
    /\ call' = NoCall
    /\ UNCHANGED <<scopeVars, timerVars, cfgVars, crateVars, refreshVars, init_result>>

\* filter::refresh_from_settings on a configuration change
RefreshFromSettings(settings) ==
    /\ SetWorld(refresh_from_settings(World, settings))
    /\ call' = NoCall
    /\ UNCHANGED <<scopeVars, timerVars, cfgVars, crateVars, refreshVars, init_result>>

\* sink::flush: the submitted records are written out.
Flush ==
    /\ sink # << >>
    /\ SetWorld([World EXCEPT !.sink = << >>])
    /\ call' = NoCall
    /\ UNCHANGED <<scopeVars, timerVars, cfgVars, crateVars, refreshVars, init_result>>

\* Another component installs its own log backend.
InstallForeignBackend ==
    /\ logger_installed = "none"
    /\ SetWorld([World EXCEPT !.logger_installed = "foreign"])
    /\ call' = NoCall
    /\ UNCHANGED <<scopeVars, timerVars, cfgVars, crateVars, refreshVars, init_result>>

TryInit ==
    LET r == try_init(World, env)
    IN  /\ Len(r.w.stderr) <= MaxStderr
        /\ SetWorld(r.w)
        /\ init_result' = [fn |-> "try_init", ok |-> r.ok]
        /\ call' = NoCall
        /\ UNCHANGED <<scopeVars, timerVars, cfgVars, crateVars, refreshVars>>

\* process_env(), called on its own.
ProcessEnvCall ==
    LET w == process_env(World, env)
    IN  /\ Len(w.stderr) <= MaxStderr
        /\ SetWorld(w)
        /\ call' = NoCall
        /\ UNCHANGED <<scopeVars, timerVars, cfgVars, crateVars, refreshVars, init_result>>

InitCall ==
    LET r == init(World, env)
    IN  /\ Len(r.w.stderr) <= MaxStderr
        /\ Len(sink) < MaxSink
        /\ SetWorld(r.w)
        /\ init_result' = [fn |-> "init", ok |-> r.ok]
        /\ call' = NoCall
        /\ UNCHANGED <<scopeVars, timerVars, cfgVars, crateVars, refreshVars>>

\* time!(logger => name)
TimerNew(lg, name) ==
    /\ timer.state # "live"
    /\ timer' = Timer_new(lg, name)
    /\ timer_trace' = << >>
    /\ call' = NoCall
    /\ UNCHANGED <<worldVars, scopeVars, cfgVars, crateVars, refreshVars, init_result>>

TimerWarnIfGt(warn_limit) ==
    /\ timer.state = "live"
    /\ timer' = warn_if_gt(timer, warn_limit)
    /\ call' = NoCall
    /\ UNCHANGED <<timer_trace, worldVars, scopeVars, cfgVars, crateVars, refreshVars, init_result>>

TimerEnd(elapsed, later) ==
    LET r == Timer_end(World, timer, elapsed, later)
    IN  /\ timer.state = "live"
        /\ Len(sink) < MaxSink
        /\ SetWorld(r.w)
        /\ timer' = r.timer
        /\ timer_trace' = r.w.trace
        /\ call' = NoCall
        /\ UNCHANGED <<scopeVars, cfgVars, crateVars, refreshVars, init_result>>

\* The Timer goes out of scope without end().
TimerDrop(elapsed) ==
    LET r == Timer_drop(World, timer, elapsed)
    IN  /\ timer.state = "live"
        /\ Len(sink) < MaxSink
        /\ SetWorld(r.w)
        /\ timer' = r.timer
        /\ timer_trace' = r.w.trace
        /\ call' = NoCall
        /\ UNCHANGED <<scopeVars, cfgVars, crateVars, refreshVars, init_result>>

----------------------------------------------------------------------------
(* Specifications *)

\* private::extract_crate_name_from_module_path(p), as crate_name!() calls it.
ExtractCrateName(p) ==
    /\ path' = p
    /\ crate' = Some(extract_crate_name_from_module_path(p))
    /\ call' = NoCall
    /\ UNCHANGED <<worldVars, scopeVars, timerVars, cfgVars, refreshVars, init_result>>

NoReader == [pc |-> "idle"]
NoWriter == [pc |-> "idle"]

\* The complete tables a check that starts now may be decided against: the
\* current one, or the old and the new one of the refresh in flight.
CompleteTables == IF writer.pc = "idle" THEN { scope_map } ELSE { writer.old, writer.new }

\* log! on another thread, first half: stage 1 reads the global gate and,
\* if it passes, stage 2 loads the Filter Table.
EmitBegin(lg, level, module_path) ==
    /\ reader.pc # "loaded"
    /\ Len(sink) < MaxSink
    /\ IF ~is_possibly_enabled_level(World, level)
       THEN /\ SetWorld(log_macro(World, lg, level, module_path, UserMessage))
            /\ reader' = NoReader
       ELSE /\ SetWorld(World)
            /\ reader' = [pc |-> "loaded", logger |-> lg, level |-> level,
                          module_path |-> module_path,
                          gate |-> level_enabled_max, table |-> scope_map,
                          allowed |-> CompleteTables,
                          during |-> IF writer.pc = "idle" THEN "none" ELSE writer.caller,
                          enabled |-> FALSE]
    /\ call' = NoCall
    /\ UNCHANGED <<scopeVars, timerVars, cfgVars, crateVars, writer, init_result>>

\* log! on another thread, second half: the check is decided on the table
\* that was loaded and, if enabled, the record is submitted.
EmitEnd ==
    /\ reader.pc = "loaded"
    /\ Len(sink) < MaxSink
    /\ LET loaded == [World EXCEPT !.scope_map = reader.table,
                                   !.level_enabled_max = reader.gate]
           w == log_macro(loaded, reader.logger, reader.level, reader.module_path,
                          UserMessage)
       IN  /\ SetWorld([w EXCEPT !.scope_map = scope_map,
                                 !.level_enabled_max = level_enabled_max])
           /\ reader' = [reader EXCEPT !.pc = "decided",
                                       !.enabled = w.trace[1].ok]
    /\ call' = NoCall
    /\ UNCHANGED <<scopeVars, timerVars, cfgVars, crateVars, writer, init_result>>

\* A refresh in flight: the tables before and after it and the stores it
\* still has to make.
Refreshing(caller, old, new) ==
    [pc |-> "storing", caller |-> caller, old |-> old, new |-> new,
     stores |-> refresh_stores(old, new)]

\* filter::refresh_from_settings on a configuration change begins.
RefreshBegin(settings) ==
    /\ writer.pc = "idle"
    /\ writer' = Refreshing("refresh_from_settings", scope_map,
                            MergedMap(env_filter, settings))
    /\ SetWorld(World)
    /\ call' = NoCall
    /\ UNCHANGED <<scopeVars, timerVars, cfgVars, crateVars, reader, init_result>>

\* try_init up to its refresh, which begins if the install succeeded.
TryInitBegin ==
    /\ writer.pc = "idle"
    /\ LET r == try_init_before_refresh(World, env)
       IN  /\ Len(r.w.stderr) <= MaxStderr
           /\ SetWorld(r.w)
           /\ IF r.ok
              THEN /\ writer' = Refreshing("try_init", scope_map,
                                           MergedMap(r.w.env_filter, EmptyMap))
                   /\ init_result' = init_result
              ELSE /\ writer' = writer
                   /\ init_result' = [fn |-> "try_init", ok |-> FALSE]
    /\ call' = NoCall
    /\ UNCHANGED <<scopeVars, timerVars, cfgVars, crateVars, reader>>

\* The refresh in flight makes its next store; after the last one the call
\* returns.
RefreshStore ==
    /\ writer.pc = "storing"
    /\ SetWorld(Event([World EXCEPT !.scope_map = Head(writer.stores)],
                      "refresh_from_settings", Len(writer.stores) = 1))
    /\ IF Len(writer.stores) = 1
       THEN /\ writer' = NoWriter
            /\ init_result' = IF writer.caller = "try_init"
                              THEN [fn |-> "try_init", ok |-> TRUE]
                              ELSE init_result
       ELSE /\ writer' = [writer EXCEPT !.stores = Tail(@)]
            /\ init_result' = init_result
    /\ call' = NoCall
    /\ UNCHANGED <<scopeVars, timerVars, cfgVars, crateVars, reader>>

Init ==
    /\ debug_assertions \in BOOLEAN
    /\ env \in EnvConfigs
    /\ logger_installed = "none"
    /\ log_max_level = "Off"
    /\ env_filter = None
    /\ scope_map = EmptyMap
    /\ level_enabled_max = DefaultLevel
    /\ stderr = << >>
    /\ sink = << >>
    /\ trace = << >>
    /\ init_result = [fn |-> "none", ok |-> TRUE]
    /\ logger = NoLogger
    /\ child = NoLogger
    /\ scoped_call = NoScopedCall
    /\ timer = NoTimer
    /\ timer_trace = << >>
    /\ call = NoCall
    /\ path = EmptyStr
    /\ crate = None
    /\ reader = NoReader
    /\ writer = NoWriter

ScopeNext ==
    \/ \E mp \in ModulePaths : DefaultLogger(mp)
    \/ \E src \in {"logger", "child"}, name \in Names : Scoped(src, name)

EmitNext ==
    \/ \E lg \in EmitLoggers, level \in Levels, mp \in EmitModulePaths : LogMacro(lg, level, mp)
    \/ \E lg \in EmitLoggers, record \in LogRecords : LoggerLog(lg, record)
    \/ \E record \in LogRecords : ZlogLog(record)
    \/ \E l \in GateLevels : SetGlobalMaxLevel(l)
    \/ \E settings \in SettingsMaps : RefreshFromSettings(settings)
    \/ Flush

TimerNext ==
    \/ \E lg \in EmitLoggers, name \in Labels : TimerNew(lg, name)
    \/ \E limit \in 0..MaxElapsed : TimerWarnIfGt(limit)
    \/ \E e \in 0..MaxElapsed, later \in 0..MaxElapsed : later >= e /\ TimerEnd(e, later)
    \/ \E e \in 0..MaxElapsed : TimerDrop(e)
    \/ \E l \in GateLevels : SetGlobalMaxLevel(l)
    \/ \E settings \in SettingsMaps : RefreshFromSettings(settings)
    \/ Flush

InitNext ==
    \/ TryInit
    \/ ProcessEnvCall
    \/ InitCall
    \/ InstallForeignBackend
    \/ \E record \in LogRecords : LogCrateCall(record)
    \/ Flush

CrateNext == \E p \in PathInputs : ExtractCrateName(p)

RefreshNext ==
    \/ \E lg \in EmitLoggers, level \in GateLevels, mp \in EmitModulePaths :
          EmitBegin(lg, level, mp)
    \/ EmitEnd
    \/ \E settings \in SettingsMaps : RefreshBegin(settings)
    \/ TryInitBegin
    \/ RefreshStore
    \/ Flush

Next == ScopeNext \/ EmitNext \/ TimerNext \/ InitNext \/ CrateNext \/ RefreshNext

\* The whole program.
Spec == Init /\ [][Next]_vars

\* Crate-name extraction alone, over every bounded module path.
CrateInit == Init /\ env = NoEnv /\ debug_assertions = FALSE
SpecCrate == CrateInit /\ [][CrateNext]_vars

\* Emit calls on one thread, refreshes of the Filter Table on another.
RefreshInit == Init /\ debug_assertions = FALSE /\ env.RUST_LOG = None
SpecRefresh == RefreshInit /\ [][RefreshNext]_vars

\* Logger derivation alone, in both builds.
ScopeInit == Init /\ env = NoEnv
SpecScope == ScopeInit /\ [][ScopeNext]_vars

\* The emit paths under a changing Filter Table and global gate.
EmitInit == Init /\ env = NoEnv /\ debug_assertions = FALSE
SpecEmit == EmitInit /\ [][EmitNext]_vars

\* Timers under a changing Filter Table and global gate.
TimerInit == Init /\ env = NoEnv /\ debug_assertions = FALSE
SpecTimer == TimerInit /\ [][TimerNext]_vars

\* Process start-up under every environment.
InitInit == Init /\ debug_assertions = FALSE
SpecInit == InitInit /\ [][InitNext]_vars

----------------------------------------------------------------------------
(* Properties: scoped logger derivation *)

HasEmptySlot(scope) == \E i \in 1..Len(scope) : scope[i] = EmptyStr

\* The lowest-index empty slot of a Scope that has one.
FirstEmptySlot(scope) ==
    CHOOSE i \in 1..Len(scope) :
        /\ scope[i] = EmptyStr
        /\ \A j \in 1..(i - 1) : scope[j] # EmptyStr

\* C1: scoped! on a parent whose SCOPE_DEPTH_MAX segments are all non-empty
\* returns, in a build without debug assertions, a Logger whose Scope equals
\* the parent's; in a build with debug assertions it takes the
\* assertion-failure path.
C1_ScopeOverflowDropsSegment ==
    (scoped_call.called /\ ~HasEmptySlot(scoped_call.parent.scope)) =>
        IF debug_assertions
        THEN scoped_call.outcome = "unreachable_panic"
        ELSE /\ scoped_call.outcome = "ok"
             /\ scoped_call.child.scope = scoped_call.parent.scope

\* C4: for a parent Logger whose Scope has an empty slot, scoped! returns a
\* Logger whose Scope is the parent's with the first empty slot holding the
\* name, and the parent's Scope is the same after the derivation.
C4_ChildFillsFirstEmptySlot ==
    (scoped_call.called /\ HasEmptySlot(scoped_call.parent.scope)) =>
        /\ scoped_call.outcome = "ok"
        /\ scoped_call.child.scope =
              [scoped_call.parent.scope
                  EXCEPT ![FirstEmptySlot(scoped_call.parent.scope)] = scoped_call.name]
        /\ scoped_call.parent_after = scoped_call.parent

\* A derivation two levels down: the parent already has a nested segment
\* and the child gets a second, different one.
C4_Witness ==
    /\ scoped_call.called
    /\ scoped_call.outcome = "ok"
    /\ scoped_call.parent.scope[2] = <<"x">>
    /\ scoped_call.parent.scope[3] = EmptyStr
    /\ scoped_call.name = <<"y">>
    /\ child.scope[3] = <<"y">>
    /\ child.scope[4] = EmptyStr

----------------------------------------------------------------------------
(* Properties: Timer *)

\* The positions of the events of one kind in a trace.
EventsOf(tr, ev) == { i \in 1..Len(tr) : tr[i].ev = ev }

\* C2: a Timer that went through end() and the drop that follows, or through
\* drop alone, has made exactly one emit call and submitted at most one
\* record (one exactly if that call was enabled); every run of the
\* completion logic after the first found the Timer done and did nothing.
C2_TimerEmitsOnce ==
    timer.state = "dropped" =>
        /\ timer.done
        /\ Cardinality(EventsOf(timer_trace, "is_scope_enabled")) = 1
        /\ Cardinality(EventsOf(timer_trace, "submit")) <= 1
        /\ \A i \in EventsOf(timer_trace, "is_scope_enabled") :
              timer_trace[i].ok <=> EventsOf(timer_trace, "submit") # {}
        /\ \A i \in EventsOf(timer_trace, "finish") :
              /\ timer_trace[i].ok <=> i = 1
              /\ ~timer_trace[i].ok => i = Len(timer_trace)

\* end() ran the completion logic twice (once itself, once in the drop) and
\* one record went to the sink.
C2_Witness ==
    /\ timer.state = "dropped"
    /\ Cardinality(EventsOf(timer_trace, "finish")) = 2
    /\ Cardinality(EventsOf(timer_trace, "submit")) = 1
    /\ sink # << >>
    /\ sink[Len(sink)].message.name = timer.name

\* What the completion of the Timer must do when it measures elapsed.
TimerCompletes(elapsed) ==
    LET over == /\ IsSome(timer.warn_if_longer_than)
                /\ elapsed > Unwrap(timer.warn_if_longer_than)
        level == IF over THEN "Warn" ELSE "Trace"
        message == IF over
                   THEN Message("timer_took", timer.name, elapsed, timer.warn_if_longer_than)
                   ELSE Message("timer_finished", timer.name, elapsed, None)
        emits == EventsOf(trace', "is_scope_enabled")
    IN  /\ Cardinality(emits) = 1
        /\ \A i \in emits :
              /\ trace'[i].level = level
              /\ sink' = IF trace'[i].ok
                         THEN Append(sink, SinkRecord(timer.logger.scope, level, message,
                                                      Some(ZlogModulePath)))
                         ELSE sink

\* C3: a completion with a warn threshold and elapsed strictly greater than
\* it makes exactly one Warn-level emit through the Timer's Logger, whose
\* record carries the label, the elapsed time and the threshold, and no
\* Trace emit; every other completion makes exactly one Trace-level emit
\* with the label and the elapsed time, and no Warn emit.
C3_TimerThreshold ==
    [][\A e \in 0..MaxElapsed :
          /\ TimerDrop(e) => TimerCompletes(e)
          /\ (\E later \in e..MaxElapsed : TimerEnd(e, later)) => TimerCompletes(e)]_vars

\* A Timer over its threshold has put its Warn record in the sink.
C3_Witness ==
    /\ timer.state = "dropped"
    /\ IsSome(timer.warn_if_longer_than)
    /\ sink # << >>
    /\ sink[Len(sink)].level = "Warn"
    /\ sink[Len(sink)].message.kind = "timer_took"
    /\ sink[Len(sink)].message.limit = timer.warn_if_longer_than
    /\ sink[Len(sink)].message.elapsed > Unwrap(timer.warn_if_longer_than)
    /\ EventsOf(timer_trace, "submit") # {}

----------------------------------------------------------------------------
(* Properties: emit paths *)

\* A step that made an emit call (log!, Logger::log or Zlog::log).
EmitStep == call'.kind # "none"

\* C5: on every emit path, a level the global gate rejects submits no
\* record whatever the Filter Table holds; with the gate admitting every
\* level (global max = Trace), every call the scope match allows submits
\* its record.
C5_GlobalGate ==
    [][EmitStep =>
          /\ LevelRank(call'.level) > LevelRank(level_enabled_max) => sink' = sink
          /\ (/\ level_enabled_max = "Trace"
              /\ ScopeMatch(scope_map, call'.scope, call'.module_path, call'.level))
                 => /\ Len(sink') = Len(sink) + 1
                    /\ SubSeq(sink', 1, Len(sink)) = sink
                    /\ sink'[Len(sink')].level = call'.level]_vars

\* With the global max at Error and a Filter Table entry that allows Trace
\* for the calling scope, a log! call below Error was made and nothing was
\* submitted.
C5_Witness ==
    /\ call.kind = "log!"
    /\ call.level \in {"Warn", "Info", "Debug", "Trace"}
    /\ level_enabled_max = "Error"
    /\ ScopeMatch(scope_map, call.scope, call.module_path, call.level)
    /\ sink = << >>
    /\ EventsOf(trace, "submit") = {}

\* C6: an emit call with a resolved Logger (log! or Logger::log) submits
\* exactly one Record when the enablement check passes for (logger scope,
\* caller module path, level) and none when it fails; the Record carries the
\* Logger's Scope, the emitted level and the call site's module path; the
\* call changes neither the Filter Table, the gate, the installed backend
\* nor the Logger.
C6_EmitPath ==
    [][(EmitStep /\ call'.kind \in {"log!", "Logger::log"}) =>
          /\ sink' = IF is_scope_enabled(World, call'.scope, call'.module_path, call'.level)
                     THEN Append(sink, SinkRecord(call'.scope, call'.level, UserMessage,
                                                  call'.module_path))
                     ELSE sink
          /\ UNCHANGED <<scope_map, level_enabled_max, env_filter, logger_installed,
                         log_max_level, stderr, logger, child, timer>>]_vars

\* A log! call through a derived Logger passed the check and its record, with
\* the two-segment Scope, is the last of the sink.
C6_Witness ==
    /\ call.kind = "log!"
    /\ call.scope[2] = <<"x">>
    /\ is_scope_enabled(World, call.scope, call.module_path, call.level)
    /\ sink # << >>
    /\ sink[Len(sink)] = SinkRecord(call.scope, call.level, UserMessage, call.module_path)

\* C7: in every emit through the log! macro family the format arguments are
\* built only after the enablement check of the same call has passed; a call
\* whose check fails never builds them.
C7_LazyFormatting ==
    \A i \in EventsOf(trace, "format_args") :
        /\ \E j \in EventsOf(trace, "is_scope_enabled") : j < i /\ trace[j].ok
        /\ \A j \in EventsOf(trace, "is_scope_enabled") : j > i \/ trace[j].ok

\* A log! call that passed the check, formatted and submitted, in that order.
C7_Witness ==
    /\ call.kind = "log!"
    /\ Len(trace) = 3
    /\ trace[1].ev = "is_scope_enabled" /\ trace[1].ok
    /\ trace[2].ev = "format_args"
    /\ trace[3].ev = "submit"

----------------------------------------------------------------------------
(* Properties: process-wide initialisation *)

\* The position of the one event of a kind in a trace, 0 if there is none.
EventAt(tr, ev) == IF EventsOf(tr, ev) = {} THEN 0 ELSE CHOOSE i \in EventsOf(tr, ev) : TRUE

\* The environment variable the filter expression is read from, if any.
Yields(variable) == IsSome(variable) /\ IsUnicode(Unwrap(variable))
EnvExpression ==
    IF Yields(env.ZED_LOG) THEN env.ZED_LOG
    ELSE IF Yields(env.RUST_LOG) THEN env.RUST_LOG
    ELSE None

WellFormed(expression) == \A i \in 1..Len(expression) : expression[i].level \in LevelFilters

\* C8: with a backend installed, try_init returns the install error and
\* leaves the backend, the global max level, the environment filter and the
\* Filter Table as they were, running none of the later steps; init reports
\* the error (through the log crate and on standard error), returns, and the
\* installed backend stays.
C8_InstallConflict ==
    [][/\ (TryInit /\ logger_installed # "none") =>
              /\ init_result' = [fn |-> "try_init", ok |-> FALSE]
              /\ trace' = <<[ev |-> "set_logger", ok |-> FALSE, level |-> NoLevel]>>
              /\ UNCHANGED <<logger_installed, log_max_level, level_enabled_max,
                             env_filter, scope_map, stderr, sink>>
       /\ (InitCall /\ logger_installed # "none") =>
              /\ init_result' = [fn |-> "init", ok |-> FALSE]
              /\ EventsOf(trace', "set_max_level") = {}
              /\ EventsOf(trace', "process_env") = {}
              /\ EventsOf(trace', "refresh_from_settings") = {}
              /\ stderr' = Append(stderr, "SetLoggerError")
              /\ UNCHANGED <<logger_installed, log_max_level, level_enabled_max,
                             env_filter, scope_map>>]_vars

\* init was called with the dispatcher already installed: the error is on
\* standard error and, reported through the installed dispatcher, in the sink.
C8_Witness ==
    /\ init_result = [fn |-> "init", ok |-> FALSE]
    /\ logger_installed = "ZLOG"
    /\ stderr # << >>
    /\ stderr[Len(stderr)] = "SetLoggerError"
    /\ sink # << >>
    /\ sink[Len(sink)].message.kind = "set_logger_error"

\* C9: the first try_init of a process with no backend returns Ok after, in
\* this order, installing ZLOG, setting the log crate's max level to the most
\* verbose one, processing the environment and refreshing the Filter Table
\* from an empty settings map: a well-formed expression of the environment
\* becomes the environment filter and the table, and the table is empty
\* otherwise.
C9_SuccessfulInit ==
    [][(TryInit /\ logger_installed = "none") =>
          /\ init_result' = [fn |-> "try_init", ok |-> TRUE]
          /\ logger_installed' = "ZLOG"
          /\ log_max_level' = "Trace"
          /\ 0 < EventAt(trace', "set_logger")
          /\ EventAt(trace', "set_logger") < EventAt(trace', "set_max_level")
          /\ EventAt(trace', "set_max_level") < EventAt(trace', "process_env")
          /\ EventAt(trace', "process_env") < EventAt(trace', "refresh_from_settings")
          /\ IF IsSome(EnvExpression) /\ WellFormed(Unwrap(EnvExpression))
             THEN /\ env_filter' = Some(DirectivesToMap(Unwrap(EnvExpression)))
                  /\ scope_map' = DirectivesToMap(Unwrap(EnvExpression))
                  /\ EventAt(trace', "init_env_filter") < EventAt(trace', "refresh_from_settings")
             ELSE /\ env_filter' = env_filter
                  /\ scope_map' = EmptyMap]_vars

\* try_init succeeded and the expression of the environment is the table.
C9_Witness ==
    /\ init_result = [fn |-> "try_init", ok |-> TRUE]
    /\ logger_installed = "ZLOG"
    /\ log_max_level = "Trace"
    /\ IsSome(env_filter)
    /\ scope_map # EmptyMap
    /\ Len(trace) = 5

\* C10: when the expression of the environment is present and malformed,
\* try_init installs no environment filter (init_env_filter is not called),
\* writes the failure to standard error and nothing to the sink, and still
\* returns Ok with the backend installed and an empty Filter Table.
C10_ParseFailureNonFatal ==
    [][(/\ TryInit \/ InitCall
        /\ logger_installed = "none"
        /\ IsSome(EnvExpression)
        /\ ~WellFormed(Unwrap(EnvExpression))) =>
          /\ init_result'.ok
          /\ logger_installed' = "ZLOG"
          /\ EventsOf(trace', "init_env_filter") = {}
          /\ env_filter' = env_filter
          /\ stderr' = Append(stderr, "Failed to parse log filter")
          /\ sink' = sink
          /\ scope_map' = EmptyMap]_vars

\* try_init came back Ok from a malformed ZED_LOG: the failure is on
\* standard error, no environment filter is installed.
C10_Witness ==
    /\ init_result = [fn |-> "try_init", ok |-> TRUE]
    /\ IsSome(env.ZED_LOG)
    /\ ~WellFormed(Unwrap(env.ZED_LOG))
    /\ logger_installed = "ZLOG"
    /\ env_filter = None
    /\ scope_map = EmptyMap
    /\ stderr = <<"Failed to parse log filter">>
    /\ sink = << >>

----------------------------------------------------------------------------
(* Crate-name extraction *)

\* The byte positions (1-based) where a complete "::" starts.
Markers(p) == { i \in 1..Len(p) : i + 1 <= Len(p) /\ p[i] = ":" /\ p[i + 1] = ":" }
FirstMarker(p) == CHOOSE i \in Markers(p) : \A j \in Markers(p) : i <= j

\* C11: for every module path p the extraction returns the prefix of p that
\* ends just before the first complete "::", and p itself when p holds no
\* complete "::"; a lone ':' is never a boundary, multi-byte neighbours or not.
C11_CrateNameExtraction ==
    IsSome(crate) =>
        Unwrap(crate) = IF Markers(path) = {}
                        THEN path
                        ELSE SubSeq(path, 1, FirstMarker(path) - 1)

\* ":<multi-byte>::a" was cut before the "::", past the lone ':'.
C11_Witness ==
    /\ path = <<":", "E2", "9A", ":", ":", "a">>
    /\ crate = Some(<<":", "E2", "9A">>)

\* C12: the extraction is idempotent: its result holds no complete "::", so
\* extracting from the result returns the result.
C12_ExtractionIdempotent ==
    IsSome(crate) =>
        /\ Markers(Unwrap(crate)) = {}
        /\ extract_crate_name_from_module_path(Unwrap(crate)) = Unwrap(crate)

\* A path with several markers was cut at the first one.
C12_Witness ==
    /\ path = <<"a", ":", ":", ":", ":">>
    /\ crate = Some(<<"a">>)

----------------------------------------------------------------------------
(* Properties: the environment variables *)

\* What process_env does with the expression a variable yielded.
ParsedFrom(variable) ==
    IF WellFormed(Unwrap(variable))
    THEN /\ env_filter' = Some(DirectivesToMap(Unwrap(variable)))
         /\ stderr' = stderr
         /\ EventsOf(trace', "init_env_filter") # {}
    ELSE /\ env_filter' = env_filter
         /\ stderr' = Append(stderr, "Failed to parse log filter")
         /\ EventsOf(trace', "init_env_filter") = {}

\* C13: the filter expression is read from ZED_LOG when that variable yields
\* a value and from RUST_LOG only when ZED_LOG yields none: with both set the
\* ZED_LOG value is the one parsed; with neither no environment filter is
\* installed and process_env has no effect.
C13_EnvPrecedence ==
    [][/\ (ProcessEnvCall \/ (TryInit /\ logger_installed = "none")) =>
              IF Yields(env.ZED_LOG) THEN ParsedFrom(env.ZED_LOG)
              ELSE IF Yields(env.RUST_LOG) THEN ParsedFrom(env.RUST_LOG)
              ELSE /\ env_filter' = env_filter
                   /\ stderr' = stderr
                   /\ EventsOf(trace', "init_env_filter") = {}
                   /\ EventsOf(trace', "eprintln") = {}
       /\ (ProcessEnvCall /\ ~Yields(env.ZED_LOG) /\ ~Yields(env.RUST_LOG)) =>
              /\ trace' = << >>
              /\ UNCHANGED <<logger_installed, log_max_level, level_enabled_max,
                             env_filter, scope_map, stderr, sink>>
      ]_vars

\* Both variables held a well-formed expression and the ZED_LOG one was
\* installed by process_env called on its own.
C13_Witness ==
    /\ Yields(env.ZED_LOG) /\ WellFormed(Unwrap(env.ZED_LOG))
    /\ Yields(env.RUST_LOG) /\ WellFormed(Unwrap(env.RUST_LOG))
    /\ env_filter = Some(DirectivesToMap(Unwrap(env.ZED_LOG)))
    /\ env_filter # Some(DirectivesToMap(Unwrap(env.RUST_LOG)))
    /\ logger_installed = "none"
    /\ EventsOf(trace, "init_env_filter") # {}

----------------------------------------------------------------------------
(* Properties: refresh atomicity *)

\* What a check of the reader's call decides on table t.
DecidedOn(t) ==
    /\ LevelRank(reader.level) <= LevelRank(reader.gate)
    /\ ScopeMatch(t, reader.logger.scope, Some(reader.module_path), reader.level)

\* C14: with emit calls reading the Filter Table while a refresh is in
\* flight, the one issued by try_init included, every enablement check is
\* decided against the complete table from before the refresh or the complete
\* table from after it, never a mixture of the two.
C14_RefreshAtomicity ==
    reader.pc \in {"loaded", "decided"} =>
        /\ reader.table \in reader.allowed
        /\ reader.pc = "decided" => reader.enabled = DecidedOn(reader.table)

\* A check that began during the refresh of try_init was decided on the table
\* from before it, which decides otherwise than the table from after it.
C14_Witness ==
    /\ reader.pc = "decided"
    /\ reader.during = "try_init"
    /\ \E t \in reader.allowed : DecidedOn(t) # reader.enabled
    /\ writer.pc = "idle"

----------------------------------------------------------------------------
(* Properties: Timer completion *)

\* C15: a Timer starts Active (done = FALSE); every run of the completion
\* logic from Active ends with done = TRUE, whether or not a record was
\* submitted; done never returns to FALSE; and since the drop always runs the
\* completion logic, every Timer that went out of scope is Completed, end()
\* called or not.
C15_TimerCompletion ==
    [][/\ (timer.state # "live" /\ timer'.state = "live") => ~timer'.done
       /\ (timer.state = "live" /\ timer'.state = "live") => timer'.done = timer.done
       /\ (timer.state = "live" /\ timer'.state = "dropped") =>
              /\ ~timer.done
              /\ timer'.done
              /\ timer_trace' # << >>
              /\ timer_trace'[1] = [ev |-> "finish", ok |-> TRUE, level |-> NoLevel]
       /\ (timer.done /\ timer'.state # "live") => timer'.done
       /\ timer'.state = "dropped" => timer'.done
      ]_vars

\* A Timer that was dropped without end() is Completed although its record
\* was filtered out.
C15_Witness ==
    /\ timer.state = "dropped"
    /\ timer.done
    /\ Cardinality(EventsOf(timer_trace, "finish")) = 1
    /\ EventsOf(timer_trace, "is_scope_enabled") # {}
    /\ EventsOf(timer_trace, "submit") = {}

\* What a completion over the threshold does when Warn is not enabled.
FilteredWarning ==
    /\ sink' = sink
    /\ timer'.done
    /\ EventsOf(trace', "submit") = {}
    /\ EventsOf(trace', "format_args") = {}
    /\ \A i \in EventsOf(trace', "is_scope_enabled") :
          trace'[i].level = "Warn" /\ ~trace'[i].ok
    /\ \A i \in EventsOf(trace', "finish") : i > 1 => ~trace'[i].ok /\ i = Len(trace')

\* C18: a completion with elapsed above the warn threshold while Warn is not
\* enabled for the Timer's Logger submits no record at all (no fallback to
\* Trace, enabled or not) and still marks the Timer completed, so the drop
\* that follows emits nothing.
C18_NoFallbackOnFilteredWarning ==
    [][\A e \in 0..MaxElapsed :
          (/\ TimerDrop(e) \/ \E later \in e..MaxElapsed : TimerEnd(e, later)
           /\ IsSome(timer.warn_if_longer_than)
           /\ e > Unwrap(timer.warn_if_longer_than)
           /\ ~is_scope_enabled(World, timer.logger.scope, Some(ZlogModulePath), "Warn"))
          => FilteredWarning]_vars

\* end() on a Timer over its threshold with Warn filtered out: the one check
\* was for Warn and failed, nothing was submitted, the drop found it done.
C18_Witness ==
    /\ timer.state = "dropped"
    /\ timer.done
    /\ IsSome(timer.warn_if_longer_than)
    /\ Cardinality(EventsOf(timer_trace, "finish")) = 2
    /\ \E i \in EventsOf(timer_trace, "is_scope_enabled") :
          timer_trace[i].level = "Warn" /\ ~timer_trace[i].ok
    /\ EventsOf(timer_trace, "submit") = {}
    /\ level_enabled_max = "Trace"

----------------------------------------------------------------------------
(* Properties: the log backend *)

\* The crate name of a module path: what precedes its first "::".
CrateNameOf(p) == IF Markers(p) = {} THEN p ELSE SubSeq(p, 1, FirstMarker(p) - 1)

\* The Scope Zlog::log runs the scope match against.
CheckedScope(record) ==
    IF record.is_static
    THEN scope_new(<<CrateNameOf(Unwrap(record.module_path))>>)
    ELSE scope_new(<< >>)

\* The Scope of the Record Zlog::log submits.
SubmittedScope(record) ==
    IF record.is_static
    THEN scope_new(<<Unwrap(record.module_path)>>)
    ELSE scope_new(<<UnknownModule>>)

\* A step in which Zlog::log handled this record.
ZlogStep(record) ==
    /\ call'.kind = "Zlog::log"
    /\ call'.level = record.level
    /\ call'.module_path = record.module_path
    /\ ZlogLog(record)

\* C16 as stated: the scope match is run against the single-segment Scope
\* of the crate name of the record's static module path m, with m as module
\* path, and the submitted Record carries that same Scope; with no static
\* module path the checked and the submitted Scope are the same as well.
C16_SubmittedScopeIsCheckedScope ==
    [][\A record \in LogRecords :
          ZlogStep(record) =>
              /\ record.is_static => call'.scope = CheckedScope(record)
              /\ Len(sink') > Len(sink) => sink'[Len(sink')].scope = call'.scope]_vars

\* C16, amended: for a record with a static module path m the scope match is
\* run against the single-segment Scope of the crate name of m, with m as
\* module path, and on pass the submitted Record carries the single-segment
\* Scope of m itself; with no static module path the match is run against
\* the all-empty Scope and the submitted Record carries the Scope of
\* "*unknown*".  Nothing is submitted when the check fails.
C16_BackendDispatch ==
    [][\A record \in LogRecords :
          ZlogStep(record) =>
              /\ call'.scope = CheckedScope(record)
              /\ sink' = IF is_scope_enabled(World, CheckedScope(record),
                                             record.module_path, record.level)
                         THEN Append(sink, SinkRecord(SubmittedScope(record), record.level,
                                                      record.args,
                                                      OptionOr(record.module_path,
                                                               record.file)))
                         ELSE sink]_vars

\* A record from module z::f was checked against the Scope of crate z and
\* submitted under the Scope of z::f.
C16_Witness ==
    /\ call.kind = "Zlog::log"
    /\ call.scope = scope_new(<< <<"z">> >>)
    /\ EventsOf(trace, "submit") # {}
    /\ sink # << >>
    /\ sink[Len(sink)].scope = scope_new(<< <<"z", ":", ":", "f">> >>)
    /\ sink[Len(sink)].scope # call.scope

----------------------------------------------------------------------------
(* Properties: the shape of a Scope *)

\* The non-empty segments of a Scope form a prefix of it, led by a
\* non-empty segment 0.
ContiguousPrefix(scope) ==
    /\ scope[1] # EmptyStr
    /\ \A i \in 1..(Len(scope) - 1) : scope[i] = EmptyStr => scope[i + 1] = EmptyStr

\* C17: every Logger reached from default_logger!() by scoped! derivations
\* that do not overflow has a Scope whose non-empty segments form a
\* contiguous prefix: segment 0 is the non-empty crate name and no empty
\* segment is followed by a non-empty one.  (With an empty name scoped!
\* returns the parent's Scope, so the shape is kept in that case too.)
C17_ScopeShape ==
    /\ logger # NoLogger => ContiguousPrefix(logger.scope)
    /\ child # NoLogger => ContiguousPrefix(child.scope)

\* Three derivations with non-empty names filled the whole Scope.
C17_Witness ==
    /\ logger # NoLogger
    /\ child # NoLogger
    /\ child.scope[1] = logger.scope[1]
    /\ \A i \in 2..SCOPE_DEPTH_MAX : child.scope[i] # EmptyStr
    /\ scoped_call.called
    /\ scoped_call.outcome = "ok"

====
